---- MODULE Spec2Model ----
(***************************************************************************)
(* Model of src/app.py: the students table (registry) and the handlers     *)
(* api_submit, api_reset, api_assign and api_results.                      *)
(*                                                                         *)
(* Spec      every handler runs to completion before the next starts.      *)
(* ConcSpec  two request workers, each with its own connection, interleave *)
(*           at the granularity of the handlers' SQL statements.           *)
(* TxSpec    api_assign's write-back one UPDATE at a time inside its       *)
(*           transaction, next to api_results on another connection.       *)
(***************************************************************************)
EXTENDS Integers, Sequences, FiniteSets, TLC

VARIABLES
    students,   \* the rows of table students (app.py:32-39)
    nextId,     \* next AUTOINCREMENT id; never reused, also after DELETE
    now,        \* int(time.time()), the one-second clock
    resp,       \* Spec: the response of the last handler that ran
    call,       \* Spec: the last handler that ran, and the row it found
    pc,         \* ConcSpec: each worker's position in its handler
    loc         \* ConcSpec: each worker's local variables

vars == <<students, nextId, now, resp, call, pc, loc>>

----------------------------------------------------------------------------
(* Bounds *)

\* The clock takes the values 0..MaxTime.
MaxTime == 1
\* At most MaxId rows are ever inserted (ids 1..MaxId).
MaxId == 3

(* Program constant: seat_quota.setdefault(v, 2) *)
Capacity == 2

----------------------------------------------------------------------------
(* Values *)

\* JSON / Python values of preference entries: a str, an int, None.
JStr(s) == [t |-> "str", v |-> s]
JNum(s) == [t |-> "num", v |-> s]     \* v: the decimal digits of the int
JNull == [t |-> "null", v |-> ""]

\* SQLite values of the TEXT column admitted.
NULL == [t |-> "null", v |-> ""]
Text(s) == [t |-> "text", v |-> s]

\* Binding a Python value to a column of TEXT affinity: a str is stored as
\* is, an int is stored as its decimal text, None is stored as NULL.
ToText(e) ==
    IF e.t = "null" THEN NULL ELSE Text(e.v)

\* str.strip(): drop leading and trailing whitespace. A name is a sequence
\* of one-character strings.
RECURSIVE LStrip(_)
LStrip(s) ==
    IF s # <<>> /\ Head(s) = " " THEN LStrip(Tail(s)) ELSE s

RECURSIVE RStrip(_)
RStrip(s) ==
    IF s # <<>> /\ s[Len(s)] = " " THEN RStrip(SubSeq(s, 1, Len(s) - 1)) ELSE s

Strip(s) == RStrip(LStrip(s))

\* int(x), with the handler's except clause: -1 when int() raises.
\*   int     -> itself
\*   float   -> truncated toward zero (given in tenths: -5 is -0.5)
\*   str     -> parsed when it is a decimal literal, else ValueError
\*   None    -> TypeError;  a missing key -> the default -1
StrToInt(s) ==           \* for the strings the requests use
    CASE s = "0" -> 0
      [] s = "1" -> 1
      [] s = "-1" -> -1
      [] OTHER -> -1

Trunc(tenths) ==
    IF tenths >= 0 THEN tenths \div 10 ELSE -((-tenths) \div 10)

ParseScore(x) ==
    IF "int" \in DOMAIN x THEN x.int
    ELSE IF "tenths" \in DOMAIN x THEN Trunc(x.tenths)
    ELSE IF "str" \in DOMAIN x THEN StrToInt(x.str)
    ELSE -1

\* data.get("volunteers") or []: a falsy value (a missing key, null) is
\* replaced by []; a truthy non-list (here a str) is kept as it is.
OrEmptyList(x) ==
    IF "none" \in DOMAIN x THEN [list |-> <<>>] ELSE x

\* isinstance(volunteers, list)
IsList(x) == "list" \in DOMAIN x

\* json.dumps then json.loads of a list of str / int / None.
JsonDumps(l) == [json |-> l]
JsonLoads(j) == j.json

----------------------------------------------------------------------------
(* Requests *)

Request(name, score, volunteers) ==
    [name |-> name, score |-> score, volunteers |-> volunteers]

\* Bodies that pass the checks as they stand. Three students: A has the
\* higher score, C the lower, B either; A and B ask for seat "R1" or for
\* the JSON number 1, C for "R1", for "R1" twice and then "1", for the
\* string "1", or for the one entry null.
PlainRequests ==
    { Request(<<"A">>, [int |-> 1], [list |-> <<JStr("R1")>>]),
      Request(<<"A">>, [int |-> 1], [list |-> <<JNum("1")>>]),
      Request(<<"B">>, [int |-> 0], [list |-> <<JStr("R1")>>]),
      Request(<<"B">>, [int |-> 1], [list |-> <<JStr("R1")>>]),
      Request(<<"B">>, [int |-> 1], [list |-> <<JNum("1")>>]),
      Request(<<"C">>, [int |-> 0], [list |-> <<JStr("R1")>>]),
      Request(<<"C">>, [int |-> 0],
              [list |-> <<JStr("R1"), JStr("R1"), JStr("1")>>]),
      Request(<<"C">>, [int |-> 0], [list |-> <<JStr("1")>>]),
      Request(<<"C">>, [int |-> 0], [list |-> <<JNull>>]) }

\* Bodies whose name or score is converted before it is checked: a name
\* with surrounding blanks and the score "1", the scores -0.5 and 1.5.
ConvertedRequests ==
    { Request(<<" ", "B", " ">>, [str |-> "1"], [list |-> <<JStr("R1")>>]),
      Request(<<"B">>, [tenths |-> -5], [list |-> <<JStr("R1")>>]),
      Request(<<"B">>, [tenths |-> 15], [list |-> <<JStr("R1")>>]) }

\* Bodies one of the checks rejects: a blank name, the scores -1, "abc" and
\* null, the preferences [] and "R1".
RejectedRequests ==
    { Request(<<" ">>, [int |-> 1], [list |-> <<JStr("R1")>>]),
      Request(<<"B">>, [int |-> -1], [list |-> <<JStr("R1")>>]),
      Request(<<"B">>, [str |-> "abc"], [list |-> <<JStr("R1")>>]),
      Request(<<"B">>, [none |-> TRUE], [none |-> TRUE]),
      Request(<<"B">>, [int |-> 1], [list |-> <<>>]),
      Request(<<"B">>, [int |-> 1], [other |-> "R1"]) }

Requests == PlainRequests \cup ConvertedRequests \cup RejectedRequests

----------------------------------------------------------------------------
(* The students table *)

Row(id, name, score, volunteers, admitted, last_updated) ==
    [id |-> id, name |-> name, score |-> score, volunteers |-> volunteers,
     admitted |-> admitted, last_updated |-> last_updated]

\* Mutant of SelectIdByName: the lookup never finds the row.
SelectIdByName_Miss(tbl, name) == 0

\* SELECT id FROM students WHERE name = ?  followed by fetchone(): the ids
\* of the matching rows; fetchone() returns the first in rowid order.
SelectIdByName(tbl, name) ==
    LET ids == { r.id : r \in { q \in tbl : q.name = name } }
    IN  IF ids = {} THEN 0
        ELSE CHOOSE i \in ids : \A j \in ids : i <= j

\* Mutant of UpdateSubmission: the UPDATE leaves admitted as it is.
UpdateSubmission_KeepAdmitted(tbl, id, score, volunteers, t) ==
    { IF r.id = id
        THEN [r EXCEPT !.score = score, !.volunteers = JsonDumps(volunteers),
                       !.last_updated = t]
        ELSE r : r \in tbl }

\* Mutant of UpdateSubmission: admitted=NULL is set in every row.
UpdateSubmission_ClearAll(tbl, id, score, volunteers, t) ==
    { IF r.id = id
        THEN [r EXCEPT !.score = score, !.volunteers = JsonDumps(volunteers),
                       !.admitted = NULL, !.last_updated = t]
        ELSE [r EXCEPT !.admitted = NULL] : r \in tbl }

\* UPDATE students SET score=?, volunteers=?, admitted=NULL, last_updated=?
\* WHERE id=?
UpdateSubmission(tbl, id, score, volunteers, t) ==
    { IF r.id = id
        THEN [r EXCEPT !.score = score, !.volunteers = JsonDumps(volunteers),
                       !.admitted = NULL, !.last_updated = t]
        ELSE r : r \in tbl }

\* INSERT INTO students (name, score, volunteers, last_updated): admitted is
\* left at its default NULL, id is the next AUTOINCREMENT value.
InsertSubmission(tbl, id, name, score, volunteers, t) ==
    tbl \cup { Row(id, name, score, JsonDumps(volunteers), NULL, t) }

\* Mutant of DeleteAll: DELETE FROM students WHERE admitted IS NULL.
DeleteAll_OnlyUnassigned(tbl) == { r \in tbl : r.admitted # NULL }

\* DELETE FROM students
DeleteAll(tbl) == {}

\* UPDATE students SET admitted = ? WHERE id = ?  (no row: nothing changes)
UpdateAdmitted(tbl, id, admitted) ==
    { IF r.id = id THEN [r EXCEPT !.admitted = ToText(admitted)] ELSE r :
        r \in tbl }

\* Mutant of Before: ORDER BY score ASC.
Before_ScoreAscending(r, q) ==
    \/ r.score < q.score
    \/ r.score = q.score /\ r.last_updated < q.last_updated
    \/ r.score = q.score /\ r.last_updated = q.last_updated /\ r.id < q.id

\* ORDER BY score DESC, last_updated ASC. Rows equal in both come out in
\* rowid order: the statement scans the table by rowid into the sorter.
Before(r, q) ==
    \/ r.score > q.score
    \/ r.score = q.score /\ r.last_updated < q.last_updated
    \/ r.score = q.score /\ r.last_updated = q.last_updated /\ r.id < q.id

RECURSIVE OrderByPriority(_)
OrderByPriority(rows) ==
    IF rows = {} THEN <<>>
    ELSE LET first == CHOOSE r \in rows : \A q \in rows \ {r} : Before(r, q)
         IN  <<first>> \o OrderByPriority(rows \ {first})

\* ORDER BY name ASC (BINARY collation: by code point).
CharCode(c) ==
    CASE c = " " -> 32 [] c = "A" -> 65 [] c = "B" -> 66 [] c = "C" -> 67

RECURSIVE NameLess(_, _)
NameLess(a, b) ==
    IF a = <<>> THEN b # <<>>
    ELSE IF b = <<>> THEN FALSE
    ELSE IF CharCode(Head(a)) # CharCode(Head(b))
        THEN CharCode(Head(a)) < CharCode(Head(b))
    ELSE NameLess(Tail(a), Tail(b))

RECURSIVE OrderByName(_)
OrderByName(rows) ==
    IF rows = {} THEN <<>>
    ELSE LET first == CHOOSE r \in rows : \A q \in rows \ {r} :
                          NameLess(r.name, q.name)
                              \/ (r.name = q.name /\ r.id < q.id)
         IN  <<first>> \o OrderByName(rows \ {first})

----------------------------------------------------------------------------
(* api_assign: the allocation pass *)

\* Mutant of Snapshot: only the rows not yet admitted are read.
Snapshot_OnlyUnassigned(tbl) ==
    LET rows == OrderByPriority({ r \in tbl : r.admitted = NULL })
    IN  [k \in 1..Len(rows) |->
            [id |-> rows[k].id, name |-> rows[k].name, score |-> rows[k].score,
             volunteers |-> JsonLoads(rows[k].volunteers)]]

\* Mutant of Snapshot: the rows are read in the opposite order.
Snapshot_Reversed(tbl) ==
    LET rows == OrderByPriority(tbl)
        n == Len(rows)
    IN  [k \in 1..n |->
            [id |-> rows[n + 1 - k].id, name |-> rows[n + 1 - k].name,
             score |-> rows[n + 1 - k].score,
             volunteers |-> JsonLoads(rows[n + 1 - k].volunteers)]]

\* rows = c.fetchall(); students = [{id, name, score, volunteers}, ...]
Snapshot(tbl) ==
    LET rows == OrderByPriority(tbl)
    IN  [k \in 1..Len(rows) |->
            [id |-> rows[k].id, name |-> rows[k].name, score |-> rows[k].score,
             volunteers |-> JsonLoads(rows[k].volunteers)]]

\* seat_quota = {}; seat_quota.setdefault(v, 2) for every entry v of every
\* student's list: a dict keyed by the Python values.
SeatQuota(snap) ==
    LET seats == UNION { { snap[k].volunteers[i] :
                             i \in 1..Len(snap[k].volunteers) } :
                         k \in 1..Len(snap) }
    IN  [v \in seats |-> Capacity]

\* seat_quota.get(vol, 0)
QuotaGet(quota, vol) ==
    IF vol \in DOMAIN quota THEN quota[vol] ELSE 0

\* for vol in s["volunteers"]: if seat_quota.get(vol, 0) > 0: ... break
\* The index of the entry taken, 0 when the loop ends without one.
FirstFit(volunteers, quota) ==
    LET free == { i \in 1..Len(volunteers) : QuotaGet(quota, volunteers[i]) > 0 }
    IN  IF free = {} THEN 0
        ELSE CHOOSE i \in free : \A j \in free : i <= j

\* process_log.append({...}); "result" is a constant text, Chinese for
\* "allocation succeeded", written here in ASCII.
LogEntry(s, vol) ==
    [student |-> s.name, score |-> s.score, volunteer |-> vol,
     result |-> "allocation succeeded"]

\* for s in students: ... c.execute("UPDATE students SET admitted = ? ...")
\* from student k on. The result holds the process log and, per student, the
\* UPDATE that was executed: <<id, admitted>>, admitted = None when no
\* entry was taken.
RECURSIVE AssignLoop(_, _, _, _, _)
AssignLoop(snap, k, quota, log, updates) ==
    IF k > Len(snap) THEN [process |-> log, updates |-> updates]
    ELSE LET s == snap[k]
             i == FirstFit(s.volunteers, quota)
         IN  IF i = 0
               THEN AssignLoop(snap, k + 1, quota, log,
                               Append(updates, <<s.id, JNull>>))
               ELSE LET vol == s.volunteers[i]
                    IN  AssignLoop(snap, k + 1,
                                   [quota EXCEPT ![vol] = @ - 1],
                                   Append(log, LogEntry(s, vol)),
                                   Append(updates, <<s.id, vol>>))

Allocate(snap) == AssignLoop(snap, 1, SeatQuota(snap), <<>>, <<>>)

\* The UPDATE statements applied to the table, committed together.
RECURSIVE WriteBack(_, _)
WriteBack(tbl, updates) ==
    IF updates = <<>> THEN tbl
    ELSE WriteBack(UpdateAdmitted(tbl, Head(updates)[1], Head(updates)[2]),
                   Tail(updates))

\* SELECT name, admitted FROM students ORDER BY name ASC
Results(tbl) ==
    LET rows == OrderByName(tbl)
    IN  [k \in 1..Len(rows) |->
            [name |-> rows[k].name, admitted |-> rows[k].admitted]]

----------------------------------------------------------------------------
(* Responses and the record of the last call *)

Response(status, error, process, results) ==
    [status |-> status, error |-> error, process |-> process,
     results |-> results]

Ok == Response(200, "", <<>>, <<>>)
Error(msg) == Response(400, msg, <<>>, <<>>)

\* What api_submit made of an accepted body: the stripped name, the
\* converted score, the list, and the time it read.
Parsed(name, score, volunteers, t) ==
    [name |-> name, score |-> score, volunteers |-> volunteers, t |-> t]

NoRequest == Parsed(<<>>, 0, <<>>, 0)

\* op: the handler; req: the accepted body as api_submit parsed it; id: the
\* row api_submit's SELECT found (0: none, or the body was rejected before
\* it); was: that row's admitted before the UPDATE; again: api_assign ran
\* right after api_assign (for api_results see there).
Call(op, req, id, was, again) ==
    [op |-> op, req |-> req, id |-> id, was |-> was, again |-> again]

AdmittedOf(tbl, id) ==
    IF \E r \in tbl : r.id = id
        THEN (CHOOSE r \in tbl : r.id = id).admitted
        ELSE NULL

\* The checks of api_submit, in the code's order.
SubmitError(name, score, volunteers) ==
    IF name = <<>> THEN "name required"
    ELSE IF score < 0 THEN "score invalid"
    ELSE IF ~IsList(volunteers) \/ Len(volunteers.list) = 0
        THEN "volunteers list required"
    ELSE ""

----------------------------------------------------------------------------
(* Spec: handlers run one at a time *)

Init ==
    /\ students = {}
    /\ nextId = 1
    /\ now = 0
    /\ resp = Ok
    /\ call = Call("none", NoRequest, 0, NULL, FALSE)
    /\ pc = <<>>
    /\ loc = <<>>

\* POST /api/submit with JSON body d
api_submit(d) ==
    LET name == Strip(d.name)
        score == ParseScore(d.score)
        volunteers == OrEmptyList(d.volunteers)
        err == SubmitError(name, score, volunteers)
        id == SelectIdByName(students, name)
    IN  /\ UNCHANGED <<now, pc, loc>>
        /\ IF err # ""
             THEN /\ resp' = Error(err)
                  /\ call' = Call("submit", NoRequest, 0, NULL, FALSE)
                  /\ UNCHANGED <<students, nextId>>
             ELSE /\ resp' = Ok
                  /\ call' = Call("submit",
                                  Parsed(name, score, volunteers.list, now),
                                  id, AdmittedOf(students, id), FALSE)
                  /\ IF id # 0
                       THEN /\ students' = UpdateSubmission(students, id, score,
                                                            volunteers.list, now)
                            /\ UNCHANGED nextId
                       ELSE /\ nextId <= MaxId
                            /\ students' = InsertSubmission(students, nextId,
                                               name, score, volunteers.list, now)
                            /\ nextId' = nextId + 1

\* POST /api/reset
api_reset ==
    /\ students' = DeleteAll(students)
    /\ resp' = Ok
    /\ call' = Call("reset", NoRequest, 0, NULL, FALSE)
    /\ UNCHANGED <<nextId, now, pc, loc>>

\* POST /api/assign
api_assign ==
    LET out == Allocate(Snapshot(students))
        tbl == WriteBack(students, out.updates)
    IN  /\ students' = tbl
        /\ resp' = Response(200, "", out.process, Results(tbl))
        /\ call' = Call("assign", NoRequest, 0, NULL, call.op = "assign")
        /\ UNCHANGED <<nextId, now, pc, loc>>

\* time.time() moves on to the next second.
Tick ==
    /\ now < MaxTime
    /\ now' = now + 1
    /\ UNCHANGED <<students, nextId, resp, call, pc, loc>>

Submit == \E d \in Requests : api_submit(d)

Next == Submit \/ api_reset \/ api_assign \/ Tick

Spec == Init /\ [][Next]_vars

----------------------------------------------------------------------------
(* ConcSpec: two workers, one connection each. A SELECT reads the committed *)
(* table; the statements from a handler's first write to its db.commit()    *)
(* are one transaction and take effect together.                            *)

Workers == {1, 2}

\* Bodies the workers submit: student A once, student B with either score.
ConcRequests ==
    { Request(<<"A">>, [int |-> 1], [list |-> <<JStr("R1")>>]),
      Request(<<"B">>, [int |-> 1], [list |-> <<JStr("R1")>>]),
      Request(<<"B">>, [int |-> 0], [list |-> <<JStr("R1"), JStr("1")>>]),
      Request(<<"C">>, [int |-> 0], [list |-> <<JStr("R1")>>]),
      Request(<<" ">>, [int |-> 0], [list |-> <<JStr("R1")>>]) }

NoOut == [process |-> <<>>, updates |-> <<>>]

\* A worker's locals. name, score, volunteers, t, row: api_submit's after
\* its SELECT; out: what api_assign computed from its snapshot; resubmitted:
\* the rows other workers' submits updated since this worker's api_assign
\* read its snapshot. A worker's response is not kept: api_assign's is
\* AssignResponse below, api_submit's is an error exactly when SubmitError
\* is not "".
Locals(name, score, volunteers, t, row, out, resubmitted) ==
    [name |-> name, score |-> score, volunteers |-> volunteers, t |-> t,
     row |-> row, out |-> out, resubmitted |-> resubmitted]

Idle == Locals(<<>>, 0, <<>>, 0, 0, NoOut, {})

ConcInit ==
    /\ students = {}
    /\ nextId = 1
    /\ now = 0
    /\ resp = Ok
    /\ call = Call("none", NoRequest, 0, NULL, FALSE)
    /\ pc = [w \in Workers |-> "idle"]
    /\ loc = [w \in Workers |-> Idle]

\* api_submit up to row = c.fetchone()
submit_select(w, d) ==
    LET name == Strip(d.name)
        score == ParseScore(d.score)
        volunteers == OrEmptyList(d.volunteers)
        err == SubmitError(name, score, volunteers)
    IN  /\ pc[w] = "idle"
        /\ IF err # ""
             THEN UNCHANGED <<pc, loc>>
             ELSE /\ loc' = [loc EXCEPT ![w] =
                                Locals(name, score, volunteers.list, now,
                                       SelectIdByName(students, name), NoOut,
                                       {})]
                  /\ pc' = [pc EXCEPT ![w] = "submit_selected"]
        /\ UNCHANGED <<students, nextId, now, resp, call>>

\* api_submit from the UPDATE or INSERT to db.commit()
submit_commit(w) ==
    LET l == loc[w]
    IN  /\ pc[w] = "submit_selected"
        /\ IF l.row # 0
             THEN /\ students' = UpdateSubmission(students, l.row, l.score,
                                                  l.volunteers, l.t)
                  /\ UNCHANGED nextId
             ELSE /\ nextId <= MaxId
                  /\ students' = InsertSubmission(students, nextId, l.name,
                                                  l.score, l.volunteers, l.t)
                  /\ nextId' = nextId + 1
        /\ pc' = [pc EXCEPT ![w] = "idle"]
        /\ loc' = [v \in Workers |->
                     IF v = w THEN Idle
                     ELSE IF pc[v] = "assign_fetched" /\ l.row # 0
                         THEN [loc[v] EXCEPT !.resubmitted = @ \cup {l.row}]
                     ELSE loc[v]]
        /\ UNCHANGED <<now, resp, call>>

\* api_reset
reset(w) ==
    /\ pc[w] = "idle"
    /\ students' = DeleteAll(students)
    /\ UNCHANGED <<nextId, now, resp, call, pc, loc>>

\* api_assign up to rows = c.fetchall(); the quota and the loop's choices
\* depend on the snapshot alone.
assign_fetch(w) ==
    /\ pc[w] = "idle"
    /\ pc' = [pc EXCEPT ![w] = "assign_fetched"]
    /\ loc' = [loc EXCEPT ![w] =
                  Locals(<<>>, 0, <<>>, 0, 0, Allocate(Snapshot(students)),
                         {})]
    /\ UNCHANGED <<students, nextId, now, resp, call>>

\* api_assign from the first UPDATE to db.commit()
assign_commit(w) ==
    /\ pc[w] = "assign_fetched"
    /\ students' = WriteBack(students, loc[w].out.updates)
    /\ pc' = [pc EXCEPT ![w] = "assign_committed"]
    /\ UNCHANGED <<nextId, now, resp, call, loc>>

\* api_assign's SELECT name, admitted and the response it returns when that
\* SELECT runs in the current state
AssignResponse(w) ==
    Response(200, "", loc[w].out.process, Results(students))

assign_results(w) ==
    /\ pc[w] = "assign_committed"
    /\ pc' = [pc EXCEPT ![w] = "idle"]
    /\ loc' = [loc EXCEPT ![w] = Idle]
    /\ UNCHANGED <<students, nextId, now, resp, call>>

ConcTick ==
    /\ now < MaxTime
    /\ now' = now + 1
    /\ UNCHANGED <<students, nextId, resp, call, pc, loc>>

ConcSubmit == \E w \in Workers, d \in ConcRequests : submit_select(w, d)
ConcSubmitCommit == \E w \in Workers : submit_commit(w)
ConcReset == \E w \in Workers : reset(w)
ConcAssignFetch == \E w \in Workers : assign_fetch(w)
ConcAssignCommit == \E w \in Workers : assign_commit(w)
ConcAssignResults == \E w \in Workers : assign_results(w)

ConcNext ==
    \/ ConcSubmit
    \/ ConcSubmitCommit
    \/ ConcReset
    \/ ConcAssignFetch
    \/ ConcAssignCommit
    \/ ConcAssignResults
    \/ ConcTick

ConcSpec == ConcInit /\ [][ConcNext]_vars

----------------------------------------------------------------------------
(* TxSpec: api_assign's write-back one UPDATE at a time, next to api_results. *)
(* The connection opens a transaction before the pass's first UPDATE and     *)
(* holds the database's write lock until db.commit(); a statement of another *)
(* connection that writes waits for the lock; a SELECT does not.             *)

\* Bodies submitted under TxSpec.
TxRequests ==
    { Request(<<"A">>, [int |-> 1], [list |-> <<JStr("R1")>>]),
      Request(<<"B">>, [int |-> 1], [list |-> <<JStr("R1")>>]),
      Request(<<"C">>, [int |-> 0], [list |-> <<JStr("R1")>>]) }

\* A worker's locals in api_assign: what it computed from its snapshot, and
\* how many of its UPDATE statements it has executed.
TxLocals(out, done) == [out |-> out, done |-> done]

TxIdle == TxLocals(NoOut, 0)

\* No connection holds the write lock.
NoWriter == \A w \in Workers : pc[w] # "assign_updating"

\* The UPDATE statements executed in transactions that are still open.
Uncommitted ==
    IF NoWriter THEN <<>>
    ELSE LET w == CHOOSE v \in Workers : pc[v] = "assign_updating"
         IN  SubSeq(loc[w].out.updates, 1, loc[w].done)

\* Mutant of ReadCommitted: a SELECT sees the writes of open transactions.
ReadCommitted_Dirty(tbl, pending) == WriteBack(tbl, pending)

\* What a SELECT of another connection reads: the committed table.
ReadCommitted(tbl, pending) == tbl

\* ORDER BY score DESC; rows of equal score come out in rowid order.
RECURSIVE OrderByScore(_)
OrderByScore(rows) ==
    IF rows = {} THEN <<>>
    ELSE LET first == CHOOSE r \in rows : \A q \in rows \ {r} :
                          \/ r.score > q.score
                          \/ r.score = q.score /\ r.id < q.id
         IN  <<first>> \o OrderByScore(rows \ {first})

\* SELECT name, score, admitted FROM students ORDER BY score DESC
ResultsByScore(tbl) ==
    LET rows == OrderByScore(tbl)
    IN  [k \in 1..Len(rows) |->
            [name |-> rows[k].name, score |-> rows[k].score,
             admitted |-> rows[k].admitted]]

TxInit ==
    /\ students = {}
    /\ nextId = 1
    /\ now = 0
    /\ resp = Ok
    /\ call = Call("none", NoRequest, 0, NULL, FALSE)
    /\ pc = [w \in Workers |-> "idle"]
    /\ loc = [w \in Workers |-> TxIdle]

\* api_submit and api_reset, whose one write and commit wait for the lock
TxSubmit == NoWriter /\ \E d \in TxRequests : api_submit(d)

TxReset == NoWriter /\ api_reset

\* GET /api/results; for this handler call.again tells that a pass held
\* executed, uncommitted UPDATEs when the SELECT ran.
api_results(w) ==
    /\ pc[w] = "idle"
    /\ resp' = Response(200, "", <<>>,
                        ResultsByScore(ReadCommitted(students, Uncommitted)))
    /\ call' = Call("results", NoRequest, 0, NULL, Uncommitted # <<>>)
    /\ UNCHANGED <<students, nextId, now, pc, loc>>

\* api_assign up to rows = c.fetchall(), and the loop's choices
tx_fetch(w) ==
    /\ pc[w] = "idle"
    /\ pc' = [pc EXCEPT ![w] = "assign_fetched"]
    /\ loc' = [loc EXCEPT ![w] = TxLocals(Allocate(Snapshot(students)), 0)]
    /\ UNCHANGED <<students, nextId, now, resp, call>>

\* One c.execute("UPDATE students SET admitted = ? WHERE id = ?"); the first
\* one takes the write lock.
tx_update(w) ==
    /\ \/ pc[w] = "assign_fetched" /\ NoWriter
       \/ pc[w] = "assign_updating"
    /\ loc[w].done < Len(loc[w].out.updates)
    /\ pc' = [pc EXCEPT ![w] = "assign_updating"]
    /\ loc' = [loc EXCEPT ![w].done = @ + 1]
    /\ UNCHANGED <<students, nextId, now, resp, call>>

\* db.commit(): the transaction's UPDATEs reach the table together.
tx_commit(w) ==
    /\ pc[w] \in {"assign_fetched", "assign_updating"}
    /\ loc[w].done = Len(loc[w].out.updates)
    /\ students' = WriteBack(students, loc[w].out.updates)
    /\ pc' = [pc EXCEPT ![w] = "assign_committed"]
    /\ UNCHANGED <<nextId, now, resp, call, loc>>

\* SELECT name, admitted ... and the response
tx_results(w) ==
    /\ pc[w] = "assign_committed"
    /\ resp' = Response(200, "", loc[w].out.process, Results(students))
    /\ call' = Call("assign", NoRequest, 0, NULL, FALSE)
    /\ pc' = [pc EXCEPT ![w] = "idle"]
    /\ loc' = [loc EXCEPT ![w] = TxIdle]
    /\ UNCHANGED <<students, nextId, now>>

TxRead == \E w \in Workers : api_results(w)
TxFetch == \E w \in Workers : tx_fetch(w)
TxUpdate == \E w \in Workers : tx_update(w)
TxCommit == \E w \in Workers : tx_commit(w)
TxResults == \E w \in Workers : tx_results(w)

TxNext ==
    \/ TxSubmit
    \/ TxReset
    \/ TxRead
    \/ TxFetch
    \/ TxUpdate
    \/ TxCommit
    \/ TxResults

TxSpec == TxInit /\ [][TxNext]_vars

----------------------------------------------------------------------------
(* Claims checked under Spec *)

Range(f) == { f[i] : i \in DOMAIN f }

Admitted(tbl, seat) == { r \in tbl : r.admitted = seat }

\* C1. Capacity bound: in every state reachable by submit, allocate and reset
\* calls, each run to completion, no seat name is the admitted value of more
\* than Capacity rows.
C1_CapacityBound ==
    \A r \in students :
        r.admitted # NULL => Cardinality(Admitted(students, r.admitted)) <= Capacity

\* At most one row per name; every stored name is trimmed and non-empty.
UniqueNames ==
    /\ \A r, q \in students : r.name = q.name => r.id = q.id
    /\ \A r \in students : r.name = Strip(r.name) /\ r.name # <<>>

\* C2. Uniqueness: the table holds at most one row per trimmed name; a submit
\* that finds a row for its name keeps the set of row ids (it never adds a
\* second row) and replaces that row's score, preferences and last_updated
\* by the request's.
C2_Uniqueness ==
    [][ /\ UniqueNames'
        /\ (call'.op = "submit" /\ call'.id # 0) =>
               /\ { r.id : r \in students' } = { r.id : r \in students }
               /\ \A r \in students' : r.id = call'.id =>
                      /\ r.name = call'.req.name
                      /\ r.score = call'.req.score
                      /\ JsonLoads(r.volunteers) = call'.req.volunteers
                      /\ r.last_updated = call'.req.t ]_vars

\* C2 witness: a submit found the row of its name and updated it, and the
\* table holds two or more rows.
C2_Witness ==
    /\ call.op = "submit" /\ call.id # 0 /\ resp.status = 200
    /\ Cardinality(students) >= 2

\* C3. Resubmission clears admission: after a submit that found a row for its
\* name, that row's admitted is NULL; and no submit turns a NULL admitted into
\* a seat, so it stays NULL until the next allocate.
C3_ResubmitClears ==
    [][ call'.op = "submit" =>
          /\ call'.id # 0 =>
                \A r \in students' : r.id = call'.id => r.admitted = NULL
          /\ \A r \in students, q \in students' :
                (r.id = q.id /\ r.admitted = NULL) => q.admitted = NULL ]_vars

\* C3 witness: a row that held a seat was resubmitted and now holds none.
C3_Witness ==
    /\ call.op = "submit" /\ call.id # 0 /\ call.was # NULL
    /\ \E r \in students : r.id = call.id /\ r.admitted = NULL

\* The rows that took entry e in the pass whose log is process.
Took(process, name, e) ==
    \E x \in Range(process) : x.student = name /\ x.volunteer = e

C5_Determinism ==
    [][ (call.op = "assign" /\ call'.op = "assign") =>
          /\ students' = students
          /\ resp'.process = resp.process
          /\ resp'.results = resp.results ]_vars

\* C5 witness: allocate ran twice in a row on a table where it admits some
\* rows and leaves another without a seat.
C5_Witness ==
    /\ call.op = "assign" /\ call.again
    /\ resp.process # <<>>
    /\ \E r \in students : r.admitted = NULL

\* C6. Admitted seat is a listed preference: every row's admitted is NULL or
\* equal, as a JSON value, to an entry of that row's preferences.
C6_AdmittedIsListed ==
    \A r \in students :
        r.admitted = NULL \/ JStr(r.admitted.v) \in Range(JsonLoads(r.volunteers))

\* The bodies C7 calls invalid: the name is empty after trimming, the score is
\* negative or not an integer, the preferences are an empty list or no list.
C7_Invalid(d) ==
    \/ Strip(d.name) = <<>>
    \/ "int" \in DOMAIN d.score /\ d.score.int < 0
    \/ "tenths" \in DOMAIN d.score
          /\ (d.score.tenths < 0 \/ d.score.tenths % 10 # 0)
    \/ "str" \in DOMAIN d.score
    \/ "none" \in DOMAIN d.score
    \/ ~("list" \in DOMAIN d.volunteers)
    \/ "list" \in DOMAIN d.volunteers /\ d.volunteers.list = <<>>

\* C7. Validation without partial write: a submit with an invalid body
\* answers with a validation error and leaves the table as it was.
C7_NoPartialWrite ==
    [][ \A d \in Requests :
          (C7_Invalid(d) /\ api_submit(d)) =>
              (resp'.status = 400 /\ students' = students) ]_vars

\* C10. Canonical order is total: no two rows have the same score and the
\* same last_updated.
C10_TotalOrder ==
    \A r, q \in students :
        (r.score = q.score /\ r.last_updated = q.last_updated) => r = q

\* A preference entry the claims call valid: a non-empty string.
ValidEntry(e) == e.t = "str" /\ e.v # ""

\* C11. Preference entries are validated: no stored row has an entry in its
\* preferences that is not a non-empty string, and no row is admitted to an
\* empty-named seat.
C11_EntriesValidated ==
    \A r \in students :
        /\ \A e \in Range(JsonLoads(r.volunteers)) : ValidEntry(e)
        /\ r.admitted # Text("")

\* C12. Reset empties the registry: after reset the table has no row; an
\* allocate on the empty table answers 200 with an empty process log and
\* empty results and leaves the table empty.
C12_ResetEmpties ==
    [][ /\ call'.op = "reset" => (students' = {} /\ resp' = Ok)
        /\ (call'.op = "assign" /\ students = {}) =>
               /\ students' = {}
               /\ resp' = Response(200, "", <<>>, <<>>) ]_vars

\* C12 witness: allocate has run on a table that a reset emptied after rows
\* had been inserted.
C12_Witness ==
    /\ call.op = "assign" /\ students = {} /\ nextId > 2

\* Reference serial dictatorship: what records 1..k of the snapshot get, in
\* snapshot order. Record k gets the first entry of its list that fewer than
\* Capacity of the records before it got, [none |-> TRUE] when there is none.
RECURSIVE SerialDictatorship(_, _)
SerialDictatorship(snap, k) ==
    IF k = 0 THEN <<>>
    ELSE LET earlier == SerialDictatorship(snap, k - 1)
             list == snap[k].volunteers
             open == { i \in 1..Len(list) :
                         Cardinality({ j \in 1..(k - 1) :
                                         earlier[j] = [seat |-> list[i]] })
                             < Capacity }
         IN  Append(earlier,
                    IF open = {} THEN [none |-> TRUE]
                    ELSE [seat |-> list[CHOOSE i \in open :
                                            \A j \in open : i <= j]])

\* C13. First-fit serial dictatorship: after an allocation pass every row
\* holds what the reference operator gives it on the same snapshot, and a
\* row's admitted is NULL exactly when the reference finds every entry of
\* its list taken Capacity times by the rows before it.
C13_FirstFit ==
    call.op = "assign" =>
        LET snap == Snapshot(students)
            ref == SerialDictatorship(snap, Len(snap))
        IN  \A k \in 1..Len(snap) : \A r \in students :
                r.id = snap[k].id =>
                    /\ "seat" \in DOMAIN ref[k] =>
                           r.admitted = ToText(ref[k].seat)
                    /\ r.admitted = NULL <=> "none" \in DOMAIN ref[k]

\* C14. Process log: after an allocation pass the log holds exactly one
\* entry for every row the pass admitted and none for a row it left without
\* a seat, the entries are in priority order (score descending, then
\* last_updated ascending), and every entry's seat is its row's admitted.
C14_ProcessLog ==
    call.op = "assign" =>
        LET log == resp.process
            RowOf(x) == CHOOSE r \in students : r.name = x.student
        IN  /\ \A r \in students :
                   Cardinality({ i \in DOMAIN log : log[i].student = r.name })
                       = IF r.admitted # NULL THEN 1 ELSE 0
            /\ \A i \in DOMAIN log :
                   /\ \E r \in students : r.name = log[i].student
                   /\ RowOf(log[i]).score = log[i].score
                   /\ RowOf(log[i]).admitted = ToText(log[i].volunteer)
            /\ \A i, j \in DOMAIN log : i < j =>
                   \/ RowOf(log[i]).score > RowOf(log[j]).score
                   \/ /\ RowOf(log[i]).score = RowOf(log[j]).score
                      /\ RowOf(log[i]).last_updated
                             <= RowOf(log[j]).last_updated

\* C20. No wasted seat after a pass: after an allocation pass, every row
\* with admitted NULL has each seat of its list held by exactly Capacity
\* rows, and every row admitted to the k-th entry of its list has each
\* earlier entry held by exactly Capacity rows that come before it in
\* priority order.
C20_NoWastedSeat ==
    call.op = "assign" =>
        LET rows == OrderByPriority(students)
        IN  \A k \in 1..Len(rows) :
                LET list == JsonLoads(rows[k].volunteers)
                    at == { i \in 1..Len(list) :
                              ToText(list[i]) = rows[k].admitted }
                    HeldBefore(e) ==
                        { j \in 1..(k - 1) : rows[j].admitted = ToText(e) }
                IN  /\ rows[k].admitted = NULL =>
                           \A e \in Range(list) :
                               Cardinality(Admitted(students, ToText(e)))
                                   = Capacity
                    /\ rows[k].admitted # NULL =>
                           \A i \in 1..Len(list) :
                               (\A j \in at : i < j) =>
                                   Cardinality(HeldBefore(list[i])) = Capacity

\* C18. Submit touches one record only: a submit that is accepted leaves
\* every row of another name as it was, adds no row of another name and
\* removes none.
C18_SubmitFrame ==
    [][ (call'.op = "submit" /\ resp'.status = 200) =>
          { r \in students' : r.name # call'.req.name }
              = { r \in students : r.name # call'.req.name } ]_vars

\* C18 witness: a row that held a seat was resubmitted and lost it, while
\* another row still holds the seat the last pass gave it.
C18_Witness ==
    /\ call.op = "submit" /\ call.id # 0 /\ call.was # NULL
    /\ \E r, q \in students :
          /\ r.id = call.id /\ r.admitted = NULL
          /\ q.id # call.id /\ q.admitted = call.was

\* The admitted value an allocation pass run on table tbl leaves in row id.
SeatAfterPass(tbl, id) ==
    AdmittedOf(WriteBack(tbl, Allocate(Snapshot(tbl)).updates), id)

\* The tables that agree with tbl on rows[1..k] and differ after them: each
\* later row is kept, removed, or asks for what rows[k] asks for, and a row
\* that comes last in priority order (lowest score, latest time, highest
\* id) may be added.
LaterChanged(tbl, rows, k) ==
    LET upto == { rows[j] : j \in 1..k }
        later == { rows[j] : j \in (k + 1)..Len(rows) }
        added == Row(nextId, <<"D">>, 0, rows[k].volunteers, NULL, now)
        variants == later
                      \cup { [q EXCEPT !.volunteers = rows[k].volunteers] :
                               q \in later }
                      \cup { added }
    IN  { upto \cup Y : Y \in { Z \in SUBSET variants :
                                   \A a, b \in Z : a.id = b.id => a = b } }

----------------------------------------------------------------------------
(* Claims checked under ConcSpec *)

\* C8. Submit versus in-flight allocate: when a pass writes its results
\* back, every row that a submit updated since the pass read its snapshot
\* is left with admitted NULL.
C8_SubmitDeferred ==
    [][ \A w \in Workers :
          (pc[w] = "assign_fetched" /\ pc'[w] = "assign_committed") =>
              \A r \in students' :
                  r.id \in loc[w].resubmitted => r.admitted = NULL ]_vars

\* C9. Atomic upsert under concurrency: once no submit is in flight, the
\* table holds at most one row per name.
C9_AtomicUpsert ==
    (\A w \in Workers : pc[w] # "submit_selected") =>
        \A r, q \in students : r.name = q.name => r.id = q.id

\* C15. Capacity bound under interleaving: with two workers whose allocation
\* passes and submits interleave, no seat name is the admitted value of more
\* than Capacity rows.
C15_CapacityInterleaved ==
    \A seat \in { r.admitted : r \in students } \ {NULL} :
        Cardinality({ r \in students : r.admitted = seat }) <= Capacity

\* C16. Write-back to a vanished record fails: a pass that goes on to commit
\* and answer 200 has written a seat only to rows that are in the table.
C16_WriteBackFindsRow ==
    [][ \A w \in Workers :
          (pc[w] = "assign_fetched" /\ pc'[w] = "assign_committed") =>
              \A i \in DOMAIN loc[w].out.updates :
                  loc[w].out.updates[i][2] # JNull =>
                      \E r \in students' : r.id = loc[w].out.updates[i][1] ]_vars

----------------------------------------------------------------------------
(* Claims checked under TxSpec *)

====
